---- MODULE Spec2Model ----
(***************************************************************************)
(* The outbound sidecar assembly of linkerd/app/outbound/src/sidecar.rs:   *)
(* discovered Sidecar targets, the Protocol decision, the HTTP / TLS /     *)
(* opaque sub-stack targets with their route projectors, and the caches    *)
(* and route spawners they are used with.                                  *)
(***************************************************************************)
EXTENDS Integers, Sequences, FiniteSets, TLC

\* ---------------------------------------------------------------- bounds
Addrs == {1, 2}              \* the original destinations (OrigDstAddr)
Conns == {1, 2}              \* the connection tasks, each serving one connection
MaxUpdates == 1              \* discovery updates published in one run
MaxLiveUpdates == 2          \* the same, in the runs of one connection

\* The destinations a connection may have: up to a renaming of the
\* addresses, the first connection goes to address 1.
Targets(c) == IF c = 1 THEN {1} ELSE Addrs

\* ---------------------------------------------------------------- values
None == [tag |-> "None"]
Some(x) == [tag |-> "Some", val |-> x]

PolicyTags == {"Detect", "Http1", "Http2", "Grpc", "Opaque", "Tls"}
Variants == {"Http1", "H2"}
ProfileKinds == {"plain", "routes", "opaque"}

\* What discovery yields per address: address 1 takes every policy arm and
\* every profile, address 2 is an opaque destination without a profile.
Arms(a) == IF a = 1 THEN PolicyTags ELSE {"Opaque"}
Kinds(a) == IF a = 1 THEN ProfileKinds \cup {"none"} ELSE {"none"}

\* policy::Protocol of revision v: every arm carries its own routes.
MkProtocol(t, v) ==
  CASE t = "Detect" ->
         [tag |-> "Detect",
          http1 |-> [routes |-> <<"http1", v>>, failure_accrual |-> <<"fa1", v>>],
          http2 |-> [routes |-> <<"http2", v>>, failure_accrual |-> <<"fa2", v>>]]
    [] t = "Http1" -> [tag |-> t, routes |-> <<"http1", v>>, failure_accrual |-> <<"fa1", v>>]
    [] t = "Http2" -> [tag |-> t, routes |-> <<"http2", v>>, failure_accrual |-> <<"fa2", v>>]
    [] t = "Grpc" -> [tag |-> t, routes |-> <<"grpc", v>>, failure_accrual |-> <<"fag", v>>]
    [] t = "Opaque" -> [tag |-> t, routes |-> <<"opaq", v>>]
    [] t = "Tls" -> [tag |-> t, routes |-> <<"tls", v>>]

\* policy::ClientPolicy: parent, protocol, backends.
ClientPolicy(t, v) ==
  [parent |-> <<"parent", v>>, protocol |-> MkProtocol(t, v), backends |-> <<"backends", v>>]

\* profiles::Profile: addr, http_routes, targets, opaque_protocol.
Profile(a, k, v) ==
  [addr |-> Some(<<"logical", a>>),
   http_routes |-> IF k = "routes" THEN <<v>> ELSE <<>>,
   targets |-> IF k = "routes" THEN <<v>> ELSE <<>>,
   opaque_protocol |-> (k = "opaque")]

VARIABLES
  policyW,    \* per address: None, or the policy watch [value, version]
  profileW,   \* per address: None, or the profile watch [value, version]
  conn,       \* per connection task: its position and what it holds
  topCache,   \* the cache of Sidecar stacks: entries [key, id, ready]
  httpCache,  \* the cache of HTTP sub-stacks: the HttpSidecar keys
  tlsCache,   \* the cache of TLS sub-stacks: the TlsSidecar keys
  opaqCache,  \* the cache of opaque sub-stacks: the OpaqSidecar keys
  watches,    \* the routes watch spawned by each connection task: None, or
              \* [mk, up, value, receivers]
  updates     \* the number of discovery updates published

vars == <<policyW, profileW, conn, topCache, httpCache, tlsCache, opaqCache, watches, updates>>


\* ------------------------------------------------------ watch receivers
\* A tokio watch::Receiver: the channel it listens on and the version it
\* has marked as seen.
Rx(ch, version) == [ch |-> ch, version |-> version]

PolicyBorrow(rx) == policyW[rx.ch].value
ProfileBorrow(rx) == profileW[rx.ch].value
\* borrow_and_update marks the current version as seen.
PolicyUpdated(rx) == Rx(rx.ch, policyW[rx.ch].version)
ProfileUpdated(rx) == Rx(rx.ch, profileW[rx.ch].version)

\* profiles::Receiver::is_opaque_protocol
IsOpaqueProtocol(rx) == ProfileBorrow(rx).opaque_protocol

\* http::profile::should_override_policy: the profile's address when the
\* profile declares routes or target overrides.
ShouldOverridePolicy(rx) ==
  LET p == ProfileBorrow(rx)
  IN IF Len(p.http_routes) > 0 \/ Len(p.targets) > 0 THEN p.addr ELSE None

\* ------------------------------------------------------------- Sidecar
\* impl From<Discovery<T>> for Sidecar
SidecarFrom(parent) ==
  [orig_dst |-> parent.orig_dst, profile |-> parent.profile, policy |-> parent.policy]

\* Param<Protocol> without the profile's opaque override.
SidecarProtocolPolicyOnly(s) ==
  LET p == PolicyBorrow(s.policy).protocol.tag
  IN CASE p = "Http1" -> "Http1"
       [] p \in {"Http2", "Grpc"} -> "Http2"
       [] p = "Opaque" -> "Opaque"
       [] p = "Tls" -> "Tls"
       [] p = "Detect" -> "Detect"

\* Param<Protocol> with the Grpc arm sent to Http1.
SidecarProtocolGrpcHttp1(s) ==
  IF s.profile.tag = "Some" /\ IsOpaqueProtocol(s.profile.val)
  THEN "Opaque"
  ELSE LET p == PolicyBorrow(s.policy).protocol.tag
       IN CASE p \in {"Http1", "Grpc"} -> "Http1"
            [] p = "Http2" -> "Http2"
            [] p = "Opaque" -> "Opaque"
            [] p = "Tls" -> "Tls"
            [] p = "Detect" -> "Detect"

\* impl svc::Param<Protocol> for Sidecar
SidecarProtocol(s) ==
  IF s.profile.tag = "Some" /\ IsOpaqueProtocol(s.profile.val)
  THEN "Opaque"
  ELSE LET p == PolicyBorrow(s.policy).protocol.tag
       IN CASE p = "Http1" -> "Http1"
            [] p \in {"Http2", "Grpc"} -> "Http2"
            [] p = "Opaque" -> "Opaque"
            [] p = "Tls" -> "Tls"
            [] p = "Detect" -> "Detect"

\* impl svc::Param<ParentRef> for Sidecar
SidecarParentRef(s) == PolicyBorrow(s.policy).parent

\* Sidecar equality over every field, receivers included.
SidecarEqAllFields(x, y) == x = y

\* impl PartialEq for Sidecar
SidecarEq(x, y) == x.orig_dst = y.orig_dst

\* impl Hash for Sidecar
SidecarHash(x) == <<x.orig_dst>>

\* --------------------------------------------------------- HttpSidecar
\* mk_policy_routes taking a Tls policy's routes for HTTP routes.
HttpMkPolicyRoutesTls(orig_dst, version, policy) ==
  LET p == policy.protocol
      HttpParams(routes, failure_accrual) ==
        Some([shape |-> "Policy", params |-> "Http", addr |-> orig_dst,
              meta |-> policy.parent, routes |-> routes,
              backends |-> policy.backends, failure_accrual |-> failure_accrual])
  IN CASE p.tag = "Detect" ->
            IF version = "Http1"
            THEN HttpParams(p.http1.routes, p.http1.failure_accrual)
            ELSE HttpParams(p.http2.routes, p.http2.failure_accrual)
       [] p.tag \in {"Http1", "Http2"} -> HttpParams(p.routes, p.failure_accrual)
       [] p.tag = "Grpc" ->
            Some([shape |-> "Policy", params |-> "Grpc", addr |-> orig_dst,
                  meta |-> policy.parent, routes |-> p.routes,
                  backends |-> policy.backends, failure_accrual |-> p.failure_accrual])
       [] p.tag = "Tls" -> HttpParams(p.routes, <<>>)
       [] p.tag = "Opaque" -> None

\* mk_policy_routes taking the HTTP/1 routes of a Detect policy for every
\* version.
HttpMkPolicyRoutesHttp1(orig_dst, version, policy) ==
  LET p == policy.protocol
      HttpParams(routes, failure_accrual) ==
        Some([shape |-> "Policy", params |-> "Http", addr |-> orig_dst,
              meta |-> policy.parent, routes |-> routes,
              backends |-> policy.backends, failure_accrual |-> failure_accrual])
  IN CASE p.tag = "Detect" -> HttpParams(p.http1.routes, p.http1.failure_accrual)
       [] p.tag \in {"Http1", "Http2"} -> HttpParams(p.routes, p.failure_accrual)
       [] p.tag = "Grpc" ->
            Some([shape |-> "Policy", params |-> "Grpc", addr |-> orig_dst,
                  meta |-> policy.parent, routes |-> p.routes,
                  backends |-> policy.backends, failure_accrual |-> p.failure_accrual])
       [] p.tag \in {"Opaque", "Tls"} -> None

\* HttpSidecar::mk_policy_routes
HttpMkPolicyRoutes(orig_dst, version, policy) ==
  LET parent_ref == policy.parent
      p == policy.protocol
      HttpParams(routes, failure_accrual) ==
        Some([shape |-> "Policy", params |-> "Http", addr |-> orig_dst,
              meta |-> parent_ref, routes |-> routes,
              backends |-> policy.backends, failure_accrual |-> failure_accrual])
  IN CASE p.tag = "Detect" ->
            IF version = "Http1"
            THEN HttpParams(p.http1.routes, p.http1.failure_accrual)
            ELSE HttpParams(p.http2.routes, p.http2.failure_accrual)
       [] p.tag = "Http1" -> HttpParams(p.routes, p.failure_accrual)
       [] p.tag = "Http2" -> HttpParams(p.routes, p.failure_accrual)
       [] p.tag = "Grpc" ->
            Some([shape |-> "Policy", params |-> "Grpc", addr |-> orig_dst,
                  meta |-> parent_ref, routes |-> p.routes,
                  backends |-> policy.backends, failure_accrual |-> p.failure_accrual])
       [] p.tag \in {"Opaque", "Tls"} -> None

\* HttpSidecar::mk_profile_routes
HttpMkProfileRoutes(addr, profile) ==
  [shape |-> "Profile", addr |-> addr, routes |-> profile.http_routes,
   targets |-> profile.targets]

\* The provider choice without the profile: always the client policy.
HttpSidecarOverrideNever(parent) == None

\* HttpSidecar::from, the provider choice: the address the profile's
\* routes override the policy with, if any.
HttpSidecarOverride(parent) ==
  IF parent.profile.tag = "Some"
  THEN ShouldOverridePolicy(parent.profile.val)
  ELSE None

\* HttpSidecar::from handing the policy watch and projector to the spawner
\* on the profile-driven path too.
HttpSidecarFromPolicySpawn(parent, version, w) ==
  LET orig_dst == parent.orig_dst
      override == HttpSidecarOverride(parent)
  IN IF override.tag = "Some"
     THEN [panic |-> FALSE,
           target |-> [orig_dst |-> orig_dst, version |-> version, routes |-> w,
                       provider |-> "ServiceProfile"],
           spawn |-> [mk |-> [kind |-> "http_policy", orig_dst |-> orig_dst,
                              version |-> version, addr |-> None],
                      up |-> PolicyUpdated(parent.policy),
                      value |-> HttpMkProfileRoutes(override.val,
                                                    ProfileBorrow(parent.profile.val))]]
     ELSE LET init == HttpMkPolicyRoutes(orig_dst, version, PolicyBorrow(parent.policy))
          IN IF init.tag = "None"
             THEN [panic |-> TRUE]
             ELSE [panic |-> FALSE,
                   target |-> [orig_dst |-> orig_dst, version |-> version, routes |-> w,
                               provider |-> "ClientPolicy"],
                   spawn |-> [mk |-> [kind |-> "http_policy", orig_dst |-> orig_dst,
                                      version |-> version, addr |-> None],
                              up |-> PolicyUpdated(parent.policy),
                              value |-> init.val]]

\* impl From<protocol::Http<Sidecar>> for HttpSidecar, building the routes
\* watch w: the target, and the spawner handed to http::spawn_routes; or a
\* panic, when expect() meets None.
HttpSidecarFrom(parent, version, w) ==
  LET orig_dst == parent.orig_dst
      override == HttpSidecarOverride(parent)
  IN IF override.tag = "Some"
     THEN [panic |-> FALSE,
           target |-> [orig_dst |-> orig_dst, version |-> version, routes |-> w,
                       provider |-> "ServiceProfile"],
           spawn |-> [mk |-> [kind |-> "http_profile", orig_dst |-> orig_dst,
                              version |-> version, addr |-> override.val],
                      up |-> ProfileUpdated(parent.profile.val),
                      value |-> HttpMkProfileRoutes(override.val,
                                                    ProfileBorrow(parent.profile.val))]]
     ELSE LET init == HttpMkPolicyRoutes(orig_dst, version, PolicyBorrow(parent.policy))
          IN IF init.tag = "None"
             THEN [panic |-> TRUE]
             ELSE [panic |-> FALSE,
                   target |-> [orig_dst |-> orig_dst, version |-> version, routes |-> w,
                               provider |-> "ClientPolicy"],
                   spawn |-> [mk |-> [kind |-> "http_policy", orig_dst |-> orig_dst,
                                      version |-> version, addr |-> None],
                              up |-> PolicyUpdated(parent.policy),
                              value |-> init.val]]

\* HttpSidecar equality over the fields its hash covers.
HttpSidecarEqProvider(x, y) ==
  x.orig_dst = y.orig_dst /\ x.version = y.version /\ x.provider = y.provider

\* impl PartialEq for HttpSidecar
HttpSidecarEq(x, y) == x.orig_dst = y.orig_dst /\ x.version = y.version

\* impl Hash for HttpSidecar
HttpSidecarHash(x) == <<x.orig_dst, x.version, x.provider>>

\* ---------------------------------------------------------- TlsSidecar
\* mk_policy_routes taking an Opaque policy's routes for TLS routes.
TlsMkPolicyRoutesOpaque(orig_dst, policy) ==
  IF policy.protocol.tag \in {"Tls", "Opaque"}
  THEN Some([shape |-> "Tls", addr |-> orig_dst, meta |-> policy.parent,
             routes |-> policy.protocol.routes, backends |-> policy.backends])
  ELSE None

\* mk_policy_routes that never ignores a policy.
TlsMkPolicyRoutesAny(orig_dst, policy) ==
  Some([shape |-> "Tls", addr |-> orig_dst, meta |-> policy.parent,
        routes |-> IF policy.protocol.tag = "Tls" THEN policy.protocol.routes ELSE <<>>,
        backends |-> policy.backends])

\* TlsSidecar::mk_policy_routes
TlsMkPolicyRoutes(orig_dst, policy) ==
  LET parent_ref == policy.parent
  IN IF policy.protocol.tag = "Tls"
     THEN Some([shape |-> "Tls", addr |-> orig_dst, meta |-> parent_ref,
                routes |-> policy.protocol.routes, backends |-> policy.backends])
     ELSE None

\* impl From<Sidecar> for TlsSidecar
TlsSidecarFrom(parent, w) ==
  LET orig_dst == parent.orig_dst
      init == TlsMkPolicyRoutes(orig_dst, PolicyBorrow(parent.policy))
  IN IF init.tag = "None"
     THEN [panic |-> TRUE]
     ELSE [panic |-> FALSE,
           target |-> [orig_dst |-> orig_dst, routes |-> w],
           spawn |-> [mk |-> [kind |-> "tls", orig_dst |-> orig_dst,
                              version |-> "none", addr |-> None],
                      up |-> PolicyUpdated(parent.policy),
                      value |-> init.val]]

\* impl PartialEq for TlsSidecar
TlsSidecarEq(x, y) == x.orig_dst = y.orig_dst

\* impl Hash for TlsSidecar
TlsSidecarHash(x) == <<x.orig_dst>>

\* --------------------------------------------------------- OpaqSidecar
\* opaq::routes_from_discovery: the opaque routes of the current policy.
OpaqRoutes(orig_dst, policy) ==
  Some([shape |-> "Opaq", addr |-> orig_dst, meta |-> policy.parent,
        backends |-> policy.backends])

\* impl From<Sidecar> for OpaqSidecar
OpaqSidecarFrom(parent, w) ==
  [panic |-> FALSE,
   target |-> [orig_dst |-> parent.orig_dst, routes |-> w],
   spawn |-> [mk |-> [kind |-> "opaq", orig_dst |-> parent.orig_dst,
                      version |-> "none", addr |-> None],
              up |-> PolicyUpdated(parent.policy),
              value |-> OpaqRoutes(parent.orig_dst, PolicyBorrow(parent.policy)).val]]

\* impl PartialEq for OpaqSidecar
OpaqSidecarEq(x, y) == x.orig_dst = y.orig_dst

\* impl Hash for OpaqSidecar
OpaqSidecarHash(x) == <<x.orig_dst>>

\* ------------------------------------------------------------- caches
\* A lookup in a hash-keyed cache of targets: an entry whose key is equal
\* and hashes alike is found; an entry whose key is equal but hashes
\* differently may or may not be found (Eq and Hash disagree).
KeyEq(family, x, y) ==
  CASE family = "sidecar" -> SidecarEq(x, y)
    [] family = "http" -> HttpSidecarEq(x, y)
    [] family = "tls" -> TlsSidecarEq(x, y)
    [] family = "opaq" -> OpaqSidecarEq(x, y)
KeyHash(family, x) ==
  CASE family = "sidecar" -> SidecarHash(x)
    [] family = "http" -> HttpSidecarHash(x)
    [] family = "tls" -> TlsSidecarHash(x)
    [] family = "opaq" -> OpaqSidecarHash(x)
Found(keys, k, family) ==
  {e \in keys : KeyEq(family, e, k) /\ KeyHash(family, e) = KeyHash(family, k)}
Unsure(keys, k, family) ==
  {e \in keys : KeyEq(family, e, k) /\ KeyHash(family, e) # KeyHash(family, k)}

TopKeys == {e.key : e \in topCache}
TopEntry(k) == CHOOSE e \in topCache : e.key \in Found(TopKeys, k, "sidecar")

\* ------------------------------------------------------------ the state
IdleConn ==
  [pc |-> "idle", dst |-> 0, sidecar |-> None, top |-> 0, proto |-> "none",
   seen |-> None, version |-> "none", sub |-> 0, built |-> None]

Init ==
  /\ policyW = [a \in Addrs |-> None]
  /\ profileW = [a \in Addrs |-> None]
  /\ conn = [c \in Conns |-> IdleConn]
  /\ topCache = {}
  /\ httpCache = {}
  /\ tlsCache = {}
  /\ opaqCache = {}
  /\ watches = [w \in Conns |-> None]
  /\ updates = 0

\* ----------------------------------------------------- the control plane
\* Closures that keep the parent reference of the first policy revision.
ProjectFirstParent(mk, snapshot) ==
  LET Keep(r) == IF r.tag = "Some" THEN Some([r.val EXCEPT !.meta = <<"parent", 0>>]) ELSE None
  IN CASE mk.kind = "http_profile" -> Some(HttpMkProfileRoutes(mk.addr, snapshot))
       [] mk.kind = "http_policy" -> Keep(HttpMkPolicyRoutes(mk.orig_dst, mk.version, snapshot))
       [] mk.kind = "tls" -> Keep(TlsMkPolicyRoutes(mk.orig_dst, snapshot))
       [] mk.kind = "opaq" -> OpaqRoutes(mk.orig_dst, snapshot)

\* The closure given to spawn_routes, applied to an upstream snapshot.
Project(mk, snapshot) ==
  CASE mk.kind = "http_profile" -> Some(HttpMkProfileRoutes(mk.addr, snapshot))
    [] mk.kind = "http_policy" -> HttpMkPolicyRoutes(mk.orig_dst, mk.version, snapshot)
    [] mk.kind = "tls" -> TlsMkPolicyRoutes(mk.orig_dst, snapshot)
    [] mk.kind = "opaq" -> OpaqRoutes(mk.orig_dst, snapshot)

\* History kept with each routes watch: the projection of the latest
\* snapshot, published upstream since its sub-stack was built, that projects
\* to routes.
Latest(profile, a, snapshot) ==
  [w \in Conns |->
     IF /\ watches[w] # None
        /\ (watches[w].mk.kind = "http_profile") = profile
        /\ watches[w].up.ch = a
        /\ Project(watches[w].mk, snapshot).tag = "Some"
     THEN [watches[w] EXCEPT !.latest = Project(watches[w].mk, snapshot).val]
     ELSE watches[w]]

\* The control plane publishes a new client policy for an address, the
\* max-th at most.
PublishPolicy(a, t, max) ==
  /\ policyW[a] # None
  /\ policyW[a].open
  /\ updates < max
  /\ LET v == policyW[a].version + 1
     IN /\ policyW' = [policyW EXCEPT ![a].value = ClientPolicy(t, v), ![a].version = v]
        /\ watches' = Latest(FALSE, a, ClientPolicy(t, v))
  /\ updates' = updates + 1
  /\ UNCHANGED <<profileW, conn, topCache, httpCache, tlsCache, opaqCache>>

\* The control plane publishes a new service profile for an address, the
\* max-th at most.
PublishProfile(a, k, max) ==
  /\ profileW[a] # None
  /\ profileW[a].open
  /\ updates < max
  /\ LET v == profileW[a].version + 1
     IN /\ profileW' = [profileW EXCEPT ![a].value = Profile(a, k, v), ![a].version = v]
        /\ watches' = Latest(TRUE, a, Profile(a, k, v))
  /\ updates' = updates + 1
  /\ UNCHANGED <<policyW, conn, topCache, httpCache, tlsCache, opaqCache>>

UpdatePolicy(a, t) == PublishPolicy(a, t, MaxUpdates)

UpdateProfile(a, k) == PublishProfile(a, k, MaxUpdates)

\* Discovery of an address ends: the senders of its watches are dropped.
DropUpstream(a) ==
  /\ policyW[a] # None
  /\ policyW[a].open
  /\ policyW' = [policyW EXCEPT ![a].open = FALSE]
  /\ profileW' = [profileW EXCEPT ![a] = IF @ = None THEN None ELSE [@ EXCEPT !.open = FALSE]]
  /\ UNCHANGED <<conn, topCache, httpCache, tlsCache, opaqCache, watches, updates>>

\* ------------------------------------------------------- a connection
\* The discovery result of a connection to a, bound to a Sidecar.
Discovered(c, a, pol, prof) ==
  LET parent == [orig_dst |-> a,
                 profile |-> IF prof = None THEN None ELSE Some(Rx(a, prof.version)),
                 policy |-> Rx(a, pol.version)]
  IN conn' = [conn EXCEPT ![c].pc = "lookup", ![c].dst = a,
                          ![c].sidecar = SidecarFrom(parent)]

\* push_discover: a connection to a is accepted and the first discovery of
\* a succeeds: it yields the policy watch and, when a has a profile, the
\* profile watch.
DiscoverNew(c, a, t, k) ==
  /\ conn[c].pc = "idle"
  /\ a \in Targets(c)
  /\ policyW[a] = None
  /\ LET pol == [value |-> ClientPolicy(t, 0), version |-> 0, open |-> TRUE]
         prof == IF k = "none" THEN None
                 ELSE [value |-> Profile(a, k, 0), version |-> 0, open |-> TRUE]
     IN /\ policyW' = [policyW EXCEPT ![a] = pol]
        /\ profileW' = [profileW EXCEPT ![a] = prof]
        /\ Discovered(c, a, pol, prof)
  /\ UNCHANGED <<topCache, httpCache, tlsCache, opaqCache, watches, updates>>

\* push_discover: a connection to a is accepted and discovery succeeds
\* with the watches a already has.
DiscoverOk(c, a) ==
  /\ conn[c].pc = "idle"
  /\ a \in Targets(c)
  /\ policyW[a] # None
  /\ Discovered(c, a, policyW[a], profileW[a])
  /\ UNCHANGED <<policyW, profileW, topCache, httpCache, tlsCache, opaqCache, watches, updates>>

\* A failed discovery that leaves an entry in the cache.
DiscoverFailCached(c, a) ==
  /\ conn[c].pc = "idle"
  /\ a \in Targets(c)
  /\ conn' = [conn EXCEPT ![c].pc = "failed", ![c].dst = a]
  /\ topCache' = topCache \cup
       {[key |-> SidecarFrom([orig_dst |-> a, profile |-> None, policy |-> Rx(a, 0)]),
         id |-> c, ready |-> TRUE]}
  /\ UNCHANGED <<policyW, profileW, httpCache, tlsCache, opaqCache, watches, updates>>

\* push_discover: the policy cannot be fetched; the connection fails.
DiscoverFail(c, a) ==
  /\ conn[c].pc = "idle"
  /\ a \in Targets(c)
  /\ conn' = [conn EXCEPT ![c].pc = "failed", ![c].dst = a]
  /\ UNCHANGED <<policyW, profileW, topCache, httpCache, tlsCache, opaqCache, watches, updates>>

\* The Sidecar stack is looked up in the cache: a ready entry is shared, a
\* missing one is built by this connection; while another connection
\* builds it, this one waits.
TopGet(c) ==
  /\ conn[c].pc = "lookup"
  /\ LET k == conn[c].sidecar
         hit == Found(TopKeys, k, "sidecar")
     IN IF hit # {}
        THEN /\ TopEntry(k).ready
             /\ conn' = [conn EXCEPT ![c].pc = "switch", ![c].top = TopEntry(k).id]
             /\ UNCHANGED topCache
        ELSE /\ topCache' = topCache \cup {[key |-> k, id |-> c, ready |-> FALSE]}
             /\ conn' = [conn EXCEPT ![c].pc = "building", ![c].top = c]
  /\ UNCHANGED <<policyW, profileW, httpCache, tlsCache, opaqCache, watches, updates>>

\* The construction of the Sidecar stack completes.
TopBuilt(c) ==
  /\ conn[c].pc = "building"
  /\ topCache' = {IF e.id = conn[c].top THEN [e EXCEPT !.ready = TRUE] ELSE e : e \in topCache}
  /\ conn' = [conn EXCEPT ![c].pc = "switch"]
  /\ UNCHANGED <<policyW, profileW, httpCache, tlsCache, opaqCache, watches, updates>>

\* push_protocol: the switch reads Param<Protocol> and picks a sub-stack.
ReadProtocol(c) ==
  /\ conn[c].pc = "switch"
  /\ LET s == conn[c].sidecar
         p == SidecarProtocol(s)
     IN conn' = [conn EXCEPT
          ![c].proto = p,
          ![c].seen = [profile |-> s.profile.tag = "Some",
                       opaque |-> s.profile.tag = "Some" /\ ProfileBorrow(s.profile.val).opaque_protocol,
                       tag |-> PolicyBorrow(s.policy).protocol.tag],
          ![c].version = CASE p = "Http1" -> "Http1" [] p = "Http2" -> "H2" [] OTHER -> "none",
          ![c].pc = CASE p \in {"Http1", "Http2"} -> "http"
                      [] p = "Tls" -> "tls"
                      [] p = "Opaque" -> "opaq"
                      [] p = "Detect" -> "detect"]
  /\ UNCHANGED <<policyW, profileW, topCache, httpCache, tlsCache, opaqCache, watches, updates>>

\* A detection that hands what is not HTTP to the TLS sub-stack.
PeekTls(c, r) ==
  /\ conn[c].pc = "detect"
  /\ conn' = [conn EXCEPT
       ![c].version = IF r \in Variants THEN r ELSE "none",
       ![c].pc = IF r \in Variants THEN "http" ELSE "tls"]
  /\ UNCHANGED <<policyW, profileW, topCache, httpCache, tlsCache, opaqCache, watches, updates>>

\* push_protocol: the detection peek classifies the connection, or times out.
Peek(c, r) ==
  /\ conn[c].pc = "detect"
  /\ conn' = [conn EXCEPT
       ![c].version = IF r \in Variants THEN r ELSE "none",
       ![c].pc = IF r \in Variants THEN "http" ELSE "opaq"]
  /\ UNCHANGED <<policyW, profileW, topCache, httpCache, tlsCache, opaqCache, watches, updates>>

\* ------------------------------------------------------ the sub-stacks
\* What a construction read, kept with the connection that ran it.
Reads(c, family, r) ==
  LET s == conn[c].sidecar
  IN [family |-> family,
      tag |-> PolicyBorrow(s.policy).protocol.tag,
      profile |-> s.profile.tag = "Some",
      override |-> s.profile.tag = "Some" /\ ShouldOverridePolicy(s.profile.val).tag = "Some",
      ok |-> ~r.panic,
      provider |-> IF family = "http" /\ ~r.panic THEN r.target.provider ELSE "none"]

\* The snapshot a spawner's upstream receiver borrows.
Upstream(wr) ==
  IF wr.mk.kind = "http_profile" THEN profileW[wr.up.ch] ELSE policyW[wr.up.ch]

\* spawn_routes: the downstream watch seeded with the initial routes.
SpawnRoutes(spawn, receivers) ==
  [mk |-> spawn.mk, up |-> spawn.up, value |-> spawn.value, receivers |-> receivers,
   running |-> TRUE, latest |-> spawn.value]

\* The construction panicked: the connection's task unwinds.
Panicked(c, family, r) ==
  /\ conn' = [conn EXCEPT ![c].pc = "panicked", ![c].built = Reads(c, family, r)]
  /\ UNCHANGED <<httpCache, tlsCache, opaqCache, watches>>

\* The new target is looked up in the sub-stack's cache: on a hit the cached
\* sub-stack serves the connection and the new target is dropped, on a miss
\* the new target is inserted.
Serve(c, family, r, keys) ==
  LET w == r.target.routes
  IN \/ \E e \in Found(keys, r.target, family) \cup Unsure(keys, r.target, family) :
          /\ conn' = [conn EXCEPT ![c].pc = "served", ![c].sub = e.routes,
                                  ![c].built = Reads(c, family, r)]
          /\ watches' = [watches EXCEPT ![w] = SpawnRoutes(r.spawn, 0)]
          /\ UNCHANGED <<httpCache, tlsCache, opaqCache>>
     \/ /\ Found(keys, r.target, family) = {}
        /\ conn' = [conn EXCEPT ![c].pc = "served", ![c].sub = w,
                                ![c].built = Reads(c, family, r)]
        /\ watches' = [watches EXCEPT ![w] = SpawnRoutes(r.spawn, 1)]
        /\ httpCache' = IF family = "http" THEN httpCache \cup {r.target} ELSE httpCache
        /\ tlsCache' = IF family = "tls" THEN tlsCache \cup {r.target} ELSE tlsCache
        /\ opaqCache' = IF family = "opaq" THEN opaqCache \cup {r.target} ELSE opaqCache

\* The HTTP sub-stack: map_target(HttpSidecar::from), then its cache.
NewHttp(c) ==
  /\ conn[c].pc = "http"
  /\ LET r == HttpSidecarFrom(conn[c].sidecar, conn[c].version, c)
     IN IF r.panic
        THEN Panicked(c, "http", r)
        ELSE Serve(c, "http", r, httpCache)
  /\ UNCHANGED <<policyW, profileW, topCache, updates>>

\* The TLS sub-stack: map_target(TlsSidecar::from), then its cache.
NewTls(c) ==
  /\ conn[c].pc = "tls"
  /\ LET r == TlsSidecarFrom(conn[c].sidecar, c)
     IN IF r.panic
        THEN Panicked(c, "tls", r)
        ELSE Serve(c, "tls", r, tlsCache)
  /\ UNCHANGED <<policyW, profileW, topCache, updates>>

\* The opaque sub-stack: map_target(OpaqSidecar::from), then its cache.
NewOpaq(c) ==
  /\ conn[c].pc = "opaq"
  /\ LET r == OpaqSidecarFrom(conn[c].sidecar, c)
     IN Serve(c, "opaq", r, opaqCache)
  /\ UNCHANGED <<policyW, profileW, topCache, updates>>

\* The connection ends: served to its end, failed, or its task is gone.
Close(c) ==
  /\ conn[c].pc \in {"served", "failed", "panicked"}
  /\ conn' = [conn EXCEPT ![c] = [IdleConn EXCEPT !.pc = "closed"]]
  /\ UNCHANGED <<policyW, profileW, topCache, httpCache, tlsCache, opaqCache, watches, updates>>

\* -------------------------------------------------- the route spawners
\* A spawner that reads a new version without publishing anything.
SpawnerStepDrops(w) ==
  /\ watches[w] # None
  /\ watches[w].running
  /\ watches[w].receivers > 0
  /\ Upstream(watches[w]).version # watches[w].up.version
  /\ watches' = [watches EXCEPT ![w].up = Rx(@.ch, Upstream(watches[w]).version)]
  /\ UNCHANGED <<policyW, profileW, conn, topCache, httpCache, tlsCache, opaqCache, updates>>

\* The spawner sees a new upstream version, projects the snapshot and
\* publishes the routes, or keeps the last ones when the projector says None.
SpawnerStep(w) ==
  /\ watches[w] # None
  /\ watches[w].running
  /\ watches[w].receivers > 0
  /\ Upstream(watches[w]).version # watches[w].up.version
  /\ LET up == Upstream(watches[w])
         r == Project(watches[w].mk, up.value)
     IN watches' = [watches EXCEPT
          ![w].up = Rx(@.ch, up.version),
          ![w].value = IF r.tag = "Some" THEN r.val ELSE @]
  /\ UNCHANGED <<policyW, profileW, conn, topCache, httpCache, tlsCache, opaqCache, updates>>

\* A spawner that may end at any time.
SpawnerExitAnytime(w) ==
  /\ watches[w] # None
  /\ watches[w].running
  /\ watches' = [watches EXCEPT ![w] = IF @.receivers = 0 THEN None
                                       ELSE [@ EXCEPT !.running = FALSE]]
  /\ UNCHANGED <<policyW, profileW, conn, topCache, httpCache, tlsCache, opaqCache, updates>>

\* The spawner ends once its downstream watch has no receivers, or its
\* upstream watch is closed; a watch without receivers goes with it.
SpawnerExit(w) ==
  /\ watches[w] # None
  /\ watches[w].running
  /\ watches[w].receivers = 0 \/ ~Upstream(watches[w]).open
  /\ watches' = [watches EXCEPT ![w] = IF @.receivers = 0 THEN None
                                       ELSE [@ EXCEPT !.running = FALSE]]
  /\ UNCHANGED <<policyW, profileW, conn, topCache, httpCache, tlsCache, opaqCache, updates>>

\* ---------------------------------------------------------- eviction
Holding(c) == conn[c].pc \in {"building", "switch", "detect", "http", "tls", "opaq", "served"}

\* An idle Sidecar stack is evicted.
EvictTop(e) ==
  /\ e \in topCache
  /\ e.ready
  /\ \A c \in Conns : ~(Holding(c) /\ conn[c].top = e.id)
  /\ topCache' = topCache \ {e}
  /\ UNCHANGED <<policyW, profileW, conn, httpCache, tlsCache, opaqCache, watches, updates>>

\* An idle sub-stack is evicted: its target, and with it the receiver of
\* its routes watch, is dropped.
EvictSub(k) ==
  /\ k \in httpCache \cup tlsCache \cup opaqCache
  /\ \A c \in Conns : ~(conn[c].pc = "served" /\ conn[c].sub = k.routes)
  /\ httpCache' = httpCache \ {k}
  /\ tlsCache' = tlsCache \ {k}
  /\ opaqCache' = opaqCache \ {k}
  /\ watches' = [watches EXCEPT ![k.routes] = IF @.running THEN [@ EXCEPT !.receivers = 0]
                                              ELSE None]
  /\ UNCHANGED <<policyW, profileW, conn, topCache, updates>>

\* ------------------------------------------------------ specification
Next ==
  \/ \E a \in Addrs : \E t \in Arms(a) : UpdatePolicy(a, t)
  \/ \E a \in Addrs : \E k \in Kinds(a) \ {"none"} : UpdateProfile(a, k)
  \/ \E c \in Conns, a \in Addrs : \E t \in Arms(a), k \in Kinds(a) : DiscoverNew(c, a, t, k)
  \/ \E c \in Conns, a \in Addrs : DiscoverOk(c, a)
  \/ \E c \in Conns, a \in Addrs : DiscoverFail(c, a)
  \/ \E c \in Conns : TopGet(c)
  \/ \E c \in Conns : TopBuilt(c)
  \/ \E c \in Conns : ReadProtocol(c)
  \/ \E c \in Conns, r \in Variants \cup {"Other"} : Peek(c, r)
  \/ \E c \in Conns : NewHttp(c)
  \/ \E c \in Conns : NewTls(c)
  \/ \E c \in Conns : NewOpaq(c)
  \/ \E c \in Conns : Close(c)
  \/ \E w \in DOMAIN watches : SpawnerStep(w)
  \/ \E w \in DOMAIN watches : SpawnerExit(w)
  \/ \E e \in topCache : EvictTop(e)
  \/ \E k \in httpCache \cup tlsCache \cup opaqCache : EvictSub(k)

Spec == Init /\ [][Next]_vars

\* The runs of one connection, with more updates and with the end of
\* discovery. The runtime schedules every task that can run: the spawners
\* and the connection's task make progress, and the detection peek is
\* bounded by its timeout.
LiveConns == {1}

NextLive ==
  \/ \E a \in Addrs : \E t \in Arms(a) : PublishPolicy(a, t, MaxLiveUpdates)
  \/ \E a \in Addrs : \E k \in Kinds(a) \ {"none"} : PublishProfile(a, k, MaxLiveUpdates)
  \/ \E a \in Addrs : DropUpstream(a)
  \/ \E c \in LiveConns, a \in Addrs : \E t \in Arms(a), k \in Kinds(a) : DiscoverNew(c, a, t, k)
  \/ \E c \in LiveConns, a \in Addrs : DiscoverFail(c, a)
  \/ \E c \in LiveConns : TopGet(c)
  \/ \E c \in LiveConns : TopBuilt(c)
  \/ \E c \in LiveConns : ReadProtocol(c)
  \/ \E c \in LiveConns, r \in Variants \cup {"Other"} : Peek(c, r)
  \/ \E c \in LiveConns : NewHttp(c)
  \/ \E c \in LiveConns : NewTls(c)
  \/ \E c \in LiveConns : NewOpaq(c)
  \/ \E c \in LiveConns : Close(c)
  \/ \E w \in DOMAIN watches : SpawnerStep(w)
  \/ \E w \in DOMAIN watches : SpawnerExit(w)
  \/ \E e \in topCache : EvictTop(e)
  \/ \E k \in httpCache \cup tlsCache \cup opaqCache : EvictSub(k)

Fairness ==
  /\ \A w \in LiveConns : WF_watches(SpawnerStep(w)) /\ WF_watches(SpawnerExit(w))
  /\ \A c \in LiveConns : /\ WF_(conn[c].pc)(\E r \in Variants \cup {"Other"} : Peek(c, r))
                           /\ WF_(conn[c].pc)(NewHttp(c) \/ NewTls(c) \/ NewOpaq(c))

SpecLive == Init /\ [][NextLive]_vars /\ Fairness

\* ============================================================= claims
\* The connections that have read Param<Protocol>.
HasRead(c) == conn[c].seen # None

\* C1: whenever a Sidecar with a profile receiver whose snapshot is opaque
\* is asked for its Protocol, the answer is Opaque, whatever the arm of the
\* policy's protocol.
C1_OpaqueProfileGivesOpaque ==
  \A c \in Conns :
    HasRead(c) /\ conn[c].seen.profile /\ conn[c].seen.opaque
      => conn[c].proto = "Opaque"

\* An opaque profile has overridden a policy whose arm is not Opaque.
C1_Witness ==
  \E c \in Conns :
    /\ HasRead(c) /\ conn[c].seen.opaque
    /\ conn[c].seen.tag \in {"Http1", "Http2", "Grpc", "Tls", "Detect"}
    /\ conn[c].proto = "Opaque"

\* C2: connections to the same orig_dst are served by the same cached
\* Sidecar stack: the cache holds at most one stack per orig_dst, and any
\* two connections holding a stack for one orig_dst hold the same one,
\* whatever the versions of their profile and policy receivers.
C2_OneStackPerOrigDst ==
  /\ \A e1, e2 \in topCache : e1.key.orig_dst = e2.key.orig_dst => e1 = e2
  /\ \A c1, c2 \in Conns :
       Holding(c1) /\ Holding(c2) /\ conn[c1].dst = conn[c2].dst
         => conn[c1].top = conn[c2].top

\* Two connections discovered under different policy versions share a stack.
C2_Witness ==
  \E c1, c2 \in Conns :
    /\ c1 # c2
    /\ conn[c1].pc = "served" /\ conn[c2].pc \in {"switch", "detect", "http", "tls", "opaq"}
    /\ conn[c1].dst = conn[c2].dst
    /\ conn[c1].top = conn[c2].top
    /\ conn[c1].sidecar.policy # conn[c2].sidecar.policy

\* The Protocol the policy's arm maps to.
ProtocolOfArm(t) ==
  CASE t = "Http1" -> "Http1"
    [] t = "Http2" -> "Http2"
    [] t = "Grpc" -> "Http2"
    [] t = "Opaque" -> "Opaque"
    [] t = "Tls" -> "Tls"
    [] t = "Detect" -> "Detect"

\* C10: without a profile, or with a profile that is not opaque, the
\* Protocol is the one the policy's arm maps to, and two reads of the same
\* (opaque flag, arm) agree.
C10_ProtocolFollowsPolicy ==
  /\ \A c \in Conns :
       HasRead(c) /\ ~conn[c].seen.opaque => conn[c].proto = ProtocolOfArm(conn[c].seen.tag)
  /\ \A c1, c2 \in Conns :
       /\ HasRead(c1) /\ HasRead(c2)
       /\ conn[c1].seen.opaque = conn[c2].seen.opaque
       /\ conn[c1].seen.tag = conn[c2].seen.tag
       => conn[c1].proto = conn[c2].proto

\* A Grpc policy read as Http2 under a profile that is not opaque.
C10_Witness ==
  \E c \in Conns :
    /\ HasRead(c) /\ conn[c].seen.profile /\ ~conn[c].seen.opaque
    /\ conn[c].seen.tag = "Grpc" /\ conn[c].proto = "Http2"

\* The policy arms outside the protocol family of a sub-stack's spawner.
CrossFamily(kind, tag) ==
  \/ kind = "http_policy" /\ tag \in {"Opaque", "Tls"}
  \/ kind = "tls" /\ tag # "Tls"

\* C3: while the policy of a live policy-driven HTTP sub-stack or of a
\* live TLS sub-stack is of another protocol family, no step changes the
\* value of the sub-stack's routes watch: neither the update that crosses
\* the families nor the spawner that processes it.
C3_CrossFamilyKeepsRoutes ==
  [][\A w \in Conns :
       /\ watches[w] # None /\ watches'[w] # None
       /\ CrossFamily(watches[w].mk.kind, policyW'[watches[w].up.ch].value.protocol.tag)
       => watches'[w].value = watches[w].value]_vars

\* The spawner of a live HTTP sub-stack has processed an Opaque or Tls
\* policy, and the watch still holds the routes of the earlier policy.
C3_Witness ==
  \E k \in httpCache :
    LET wr == watches[k.routes]
        up == policyW[k.orig_dst]
    IN /\ wr.mk.kind = "http_policy" /\ wr.receivers > 0
       /\ up.value.protocol.tag \in {"Opaque", "Tls"}
       /\ wr.up.version = up.version
       /\ wr.value.meta # up.value.parent

\* The connections that have run a sub-stack construction of a family.
HasBuilt(c, family) == conn[c].built # None /\ conn[c].built.family = family

\* C4: an HttpSidecar's provider is ServiceProfile exactly when, at its
\* construction, a profile was present and should_override_policy gave an
\* address; for as long as the sub-stack lives, a ServiceProfile one has a
\* profile spawner and Profile-shaped routes, a ClientPolicy one a policy
\* spawner and Policy-shaped routes.
C4_ProviderFixed ==
  /\ \A c \in Conns :
       HasBuilt(c, "http") /\ conn[c].built.ok
         => (conn[c].built.provider = "ServiceProfile"
               <=> conn[c].built.profile /\ conn[c].built.override)
  /\ \A k \in httpCache :
       LET wr == watches[k.routes]
       IN /\ wr # None
          /\ k.provider = "ServiceProfile"
               => wr.mk.kind = "http_profile" /\ wr.value.shape = "Profile"
          /\ k.provider = "ClientPolicy"
               => wr.mk.kind = "http_policy" /\ wr.value.shape = "Policy"

\* A sub-stack built under ClientPolicy whose profile has since gained
\* routes that would override the policy.
C4_Witness ==
  \E k \in httpCache :
    /\ k.provider = "ClientPolicy"
    /\ profileW[k.orig_dst] # None
    /\ ShouldOverridePolicy(Rx(k.orig_dst, 0)).tag = "Some"
    /\ watches[k.routes].value.shape = "Policy"

\* C5: the construction of a TlsSidecar succeeds exactly when the policy it
\* reads is Tls; when it fails, the connection has no routes watch and the
\* TLS cache no target of its making.
C5_TlsOnlyFromTls ==
  \A c \in Conns :
    HasBuilt(c, "tls")
      => /\ conn[c].built.ok <=> conn[c].built.tag = "Tls"
         /\ ~conn[c].built.ok => watches[c] = None /\ \A k \in tlsCache : k.routes # c

\* A TlsSidecar construction that met a policy which is no longer Tls.
C5_Witness ==
  \E c \in Conns :
    /\ HasBuilt(c, "tls") /\ ~conn[c].built.ok
    /\ conn[c].built.tag \in PolicyTags \ {"Tls"}
    /\ conn[c].proto = "Tls"

\* C6: on the policy-driven path the construction of an HttpSidecar
\* succeeds exactly when the policy it reads is Detect, Http1, Http2 or
\* Grpc; on the profile-driven path it succeeds whatever the policy.
C6_HttpNeedsHttpPolicy ==
  \A c \in Conns :
    HasBuilt(c, "http")
      => IF conn[c].built.profile /\ conn[c].built.override
         THEN conn[c].built.ok
         ELSE conn[c].built.ok <=> conn[c].built.tag \in {"Detect", "Http1", "Http2", "Grpc"}

\* A policy-driven HttpSidecar construction that met an Opaque or Tls policy.
C6_Witness ==
  \E c \in Conns :
    /\ HasBuilt(c, "http") /\ ~conn[c].built.ok
    /\ ~conn[c].built.override
    /\ conn[c].built.tag \in {"Opaque", "Tls"}

\* C7: when the projector returns None on the initial snapshot, the
\* connection that ran the construction receives an error, and no other
\* connection is taken down with it.
C7_FailureIsAnError ==
  \A c \in Conns :
    conn[c].built # None /\ ~conn[c].built.ok
      => /\ conn[c].pc = "failed"
         /\ \A d \in Conns \ {c} : conn[d].pc = "panicked" => ~conn[d].built.ok

\* C8: each sub-stack cache holds at most one live sub-stack per typed
\* key: one per (orig_dst, version) for HTTP, one per orig_dst for TLS and
\* for opaque.
C8_OneSubStackPerKey ==
  /\ \A k1, k2 \in httpCache :
       k1.orig_dst = k2.orig_dst /\ k1.version = k2.version => k1 = k2
  /\ \A k1, k2 \in tlsCache : k1.orig_dst = k2.orig_dst => k1 = k2
  /\ \A k1, k2 \in opaqCache : k1.orig_dst = k2.orig_dst => k1 = k2

\* The targets the caches may be keyed with.
Receivers == {Rx(a, v) : a \in Addrs, v \in 0..MaxUpdates}
Sidecars ==
  [orig_dst : Addrs, profile : {None} \cup {Some(rx) : rx \in Receivers}, policy : Receivers]
HttpSidecars ==
  [orig_dst : Addrs, version : Variants, routes : Conns,
   provider : {"ServiceProfile", "ClientPolicy"}]
TlsSidecars == [orig_dst : Addrs, routes : Conns]

\* Equality and hash of every pair of targets.
EqualityLaws ==
  /\ \A x, y \in HttpSidecars :
       /\ HttpSidecarEq(x, y) <=> (x.orig_dst = y.orig_dst /\ x.version = y.version)
       /\ HttpSidecarHash(x) = HttpSidecarHash(y)
            <=> (x.orig_dst = y.orig_dst /\ x.version = y.version /\ x.provider = y.provider)
  /\ \A x, y \in Sidecars : SidecarEq(x, y) <=> x.orig_dst = y.orig_dst
  /\ \A x, y \in TlsSidecars :
       /\ TlsSidecarEq(x, y) <=> x.orig_dst = y.orig_dst
       /\ OpaqSidecarEq(x, y) <=> x.orig_dst = y.orig_dst

\* C9: HttpSidecar targets are equal exactly when orig_dst and version are
\* equal, Sidecar, TlsSidecar and OpaqSidecar targets exactly when orig_dst
\* is, whatever their provider and receivers; the HttpSidecar hash covers
\* orig_dst, version and provider. This holds of every target a cache is
\* keyed with.
C9_EqualityByIdentity ==
  /\ topCache \subseteq [key : Sidecars, id : Conns, ready : BOOLEAN]
  /\ httpCache \subseteq HttpSidecars
  /\ tlsCache \cup opaqCache \subseteq TlsSidecars
  /\ EqualityLaws

\* Two HttpSidecar targets, of two connections, that are equal and hash
\* differently: one built under ClientPolicy, one under ServiceProfile.
C9_Witness ==
  \E c1, c2 \in Conns :
    /\ HasBuilt(c1, "http") /\ HasBuilt(c2, "http")
    /\ conn[c1].built.provider = "ClientPolicy"
    /\ conn[c2].built.provider = "ServiceProfile"
    /\ \E x, y \in HttpSidecars :
         /\ x.routes = c1 /\ x.provider = "ClientPolicy" /\ x.orig_dst = conn[c1].dst
         /\ y.routes = c2 /\ y.provider = "ServiceProfile" /\ y.orig_dst = conn[c2].dst
         /\ x \in httpCache
         /\ HttpSidecarEq(x, y)
         /\ HttpSidecarHash(x) # HttpSidecarHash(y)

\* ------------------------------------------------------------- C11
\* The spawner of w runs, its watch has a receiver, and it has read the
\* latest upstream snapshot.
CaughtUp(w) ==
  /\ watches[w] # None
  /\ watches[w].running
  /\ watches[w].receivers > 0
  /\ Upstream(watches[w]).version = watches[w].up.version

\* The spawner of w runs, its watch has a receiver, and an upstream
\* snapshot is still to be read.
Behind(w) ==
  /\ watches[w] # None
  /\ watches[w].running
  /\ watches[w].receivers > 0
  /\ Upstream(watches[w]).version # watches[w].up.version

\* C11, as the specification states it: once the spawner of a live
\* sub-stack has caught up with its upstream watch, the downstream watch
\* holds the projection of the latest upstream snapshot, published since the
\* sub-stack was built, for which the projector returns routes.
C11_LatestRoutesHeld ==
  \A w \in Conns : CaughtUp(w) => watches[w].value = watches[w].latest

\* C11, amended: a running spawner whose watch has a receiver eventually
\* reads the latest upstream version, whenever it was published after the
\* construction's read; once it has, the downstream watch holds the
\* projection of the latest snapshot if the projector returns routes for it;
\* the downstream value only ever changes to the projection of the snapshot
\* the spawner reads, so a snapshot that projects to None overwrites nothing
\* (and a snapshot replaced upstream before the spawner ran is never
\* projected).
C11_SpawnerCatchesUp ==
  /\ [](\A w \in Conns :
          CaughtUp(w) /\ Project(watches[w].mk, Upstream(watches[w]).value).tag = "Some"
            => watches[w].value = Project(watches[w].mk, Upstream(watches[w]).value).val)
  /\ [][\A w \in Conns :
          /\ watches[w] # None
          /\ watches'[w] # None
          /\ watches'[w].value # watches[w].value
          => /\ watches'[w].up.version = Upstream(watches[w]).version
             /\ Project(watches[w].mk, Upstream(watches[w]).value) = Some(watches'[w].value)]_watches
  /\ \A w \in LiveConns : Behind(w) ~> ~Behind(w)

\* The spawner published the routes of one update and then kept them over a
\* later snapshot that projects to None.
C11_Witness ==
  \E w \in Conns :
    /\ CaughtUp(w)
    /\ watches[w].mk.kind = "http_policy"
    /\ Project(watches[w].mk, Upstream(watches[w]).value) = None
    /\ watches[w].value.meta[2] >= 1
    /\ watches[w].up.version > watches[w].value.meta[2]

\* ------------------------------------------------------------- C12
\* The routes the specification gives for a target (orig_dst, version) and
\* the policy of arm t at revision v.
C12_Routes(orig_dst, version, t, v) ==
  LET Params(params, routes, failure_accrual) ==
        Some([shape |-> "Policy", params |-> params, addr |-> orig_dst,
              meta |-> <<"parent", v>>, routes |-> <<routes, v>>,
              backends |-> <<"backends", v>>, failure_accrual |-> <<failure_accrual, v>>])
  IN CASE t = "Detect" /\ version = "Http1" -> Params("Http", "http1", "fa1")
       [] t = "Detect" /\ version = "H2" -> Params("Http", "http2", "fa2")
       [] t = "Http1" -> Params("Http", "http1", "fa1")
       [] t = "Http2" -> Params("Http", "http2", "fa2")
       [] t = "Grpc" -> Params("Grpc", "grpc", "fag")
       [] t \in {"Opaque", "Tls"} -> None

C12_Table ==
  \A a \in Addrs, version \in Variants, t \in PolicyTags, v \in 0..MaxLiveUpdates :
    HttpMkPolicyRoutes(a, version, ClientPolicy(t, v)) = C12_Routes(a, version, t, v)

\* C12: mk_policy_routes maps a Detect policy to Policy::Http with the
\* routes and failure accrual of http1 for version Http1 and of http2 for
\* H2, an Http1 or Http2 policy to Policy::Http with that arm's, a Grpc
\* policy to Policy::Grpc, whatever the version, and an Opaque or Tls
\* policy, and no other, to None; the routes a policy-driven HTTP sub-stack
\* publishes are those of the table.
C12_PolicyRoutesTable ==
  /\ C12_Table
  /\ \A w \in Conns :
       CaughtUp(w) /\ watches[w].mk.kind = "http_policy"
         => LET up == Upstream(watches[w])
                r == C12_Routes(watches[w].mk.orig_dst, watches[w].mk.version,
                                up.value.protocol.tag, up.version)
            IN r # None => watches[w].value = r.val

\* A sub-stack of version H2 whose spawner projected an updated Detect
\* policy: it publishes the routes of http2.
C12_Witness ==
  \E w \in Conns :
    /\ CaughtUp(w)
    /\ watches[w].mk.kind = "http_policy"
    /\ watches[w].mk.version = "H2"
    /\ watches[w].up.version >= 1
    /\ Upstream(watches[w]).value.protocol.tag = "Detect"
    /\ watches[w].value.routes = <<"http2", watches[w].up.version>>

\* ------------------------------------------------------------- C13
\* C13: the routes on a downstream watch are the projection of one upstream
\* snapshot: policy-derived HTTP and TLS routes have the target's orig_dst
\* as addr, and their meta, routes, backends and (for HTTP) failure accrual
\* all come from the same revision of the policy.
C13_OneSnapshot ==
  \A w \in Conns :
    watches[w] # None /\ watches[w].mk.kind \in {"http_policy", "tls"}
      => LET r == watches[w].value
             v == r.meta[2]
         IN /\ r.addr = watches[w].mk.orig_dst
            /\ r.meta = <<"parent", v>>
            /\ r.backends = <<"backends", v>>
            /\ r.routes[2] = v
            /\ watches[w].mk.kind = "http_policy" => r.failure_accrual[2] = v
            /\ v <= watches[w].up.version

\* A connection is served by the policy-derived HTTP sub-stack it built,
\* whose spawner has since published the routes of a policy of another arm.
C13_Witness ==
  \E w \in Conns :
    /\ conn[w].pc = "served"
    /\ conn[w].sub = w
    /\ watches[w] # None
    /\ watches[w].mk.kind = "http_policy"
    /\ conn[w].built.tag # Upstream(watches[w]).value.protocol.tag
    /\ watches[w].value.meta[2] >= 1
    /\ watches[w].value.routes[2] = watches[w].up.version

\* ------------------------------------------------------------- C14
\* The spawner of w runs.
Running(w) == watches[w] # None /\ watches[w].running

\* The spawner of w has to end: its upstream watch is closed, or its
\* downstream watch has no receivers.
MustEnd(w) ==
  Running(w) /\ (watches[w].receivers = 0 \/ ~Upstream(watches[w]).open)

\* C14: a route spawner eventually terminates once its upstream watch is
\* closed or its downstream watch has no receivers left, as after the
\* eviction of its sub-stack; it does not terminate while its upstream is
\* open and a downstream receiver exists.
C14_SpawnerTerminates ==
  /\ \A w \in LiveConns : MustEnd(w) ~> ~Running(w)
  /\ [][\A w \in Conns :
          Running(w) /\ (watches'[w] = None \/ ~watches'[w].running) => MustEnd(w)]_watches

\* The upstream watch was closed under a cached sub-stack: its spawner has
\* ended, and the sub-stack keeps its last routes.
C14_Witness ==
  \E w \in Conns :
    /\ watches[w] # None
    /\ ~watches[w].running
    /\ watches[w].receivers > 0
    /\ ~Upstream(watches[w]).open

\* ------------------------------------------------------------- C15
\* C15: a connection whose Sidecar yields Protocol Detect is eventually
\* dispatched, and to one sub-stack only: to the HTTP sub-stack with the
\* version the peek found, or to the opaque one when the peek found no HTTP
\* or timed out; its target is built in that sub-stack and in no other.
C15_DetectDispatches ==
  /\ \A c \in LiveConns : (conn[c].pc = "detect") ~> (conn[c].pc \in {"http", "opaq"})
  /\ [][\A c \in Conns :
          conn[c].pc = "detect" /\ conn'[c].pc # "detect"
            => \/ conn'[c].pc = "http" /\ conn'[c].version \in Variants
               \/ conn'[c].pc = "opaq" /\ conn'[c].version = "none"]_conn
  /\ [](\A c \in Conns :
          conn[c].proto = "Detect" /\ conn[c].built # None
            => conn[c].built.family = IF conn[c].version \in Variants THEN "http" ELSE "opaq")

\* A connection detected as HTTP/2 is served by the HTTP sub-stack.
C15_Witness ==
  \E c \in Conns :
    /\ conn[c].proto = "Detect"
    /\ conn[c].pc = "served"
    /\ conn[c].version = "H2"
    /\ conn[c].built.family = "http"
    /\ conn[c].sub # 0

\* ------------------------------------------------------------- C16
\* C16: a failed discovery fails its connection only and leaves nothing
\* behind: no cache entry, no watch, no change to any other connection; a
\* later connection to the same orig_dst can attempt discovery again.
C16_FailureLeavesNothing ==
  /\ [](\A c \in Conns :
          conn[c].pc = "failed"
            => /\ conn[c].top = 0 /\ conn[c].sub = 0 /\ conn[c].sidecar = None
               /\ \A e \in topCache : e.id # c
               /\ \A k \in httpCache \cup tlsCache \cup opaqCache : k.routes # c
               /\ watches[c] = None
               /\ \A d \in Conns :
                    conn[d].pc = "idle" /\ conn[c].dst \in Targets(d)
                      => ENABLED (\/ DiscoverOk(d, conn[c].dst)
                                  \/ \E t \in Arms(conn[c].dst), k \in Kinds(conn[c].dst) :
                                       DiscoverNew(d, conn[c].dst, t, k)))
  /\ [][\A c \in Conns :
          conn[c].pc = "idle" /\ conn'[c].pc = "failed"
            => /\ UNCHANGED <<policyW, profileW, topCache, httpCache, tlsCache, opaqCache, watches>>
               /\ \A d \in Conns \ {c} : conn'[d] = conn[d]]_conn

\* The discovery for one connection to an orig_dst failed; another
\* connection to the same orig_dst is discovered, builds its stacks and is
\* served (the failing step changes nothing else, so it may come first).
C16_Witness ==
  \E c, d \in Conns :
    /\ conn[c].pc = "failed"
    /\ conn[d].pc = "served"
    /\ conn[d].dst = conn[c].dst
    /\ conn[d].sub = d
    /\ policyW[conn[d].dst].version = 0
    /\ updates = 0

\* ------------------------------------------------------------- C17
\* The switch dispatched connection c to the HTTP or the TLS sub-stack.
Dispatched(c) ==
  \/ conn[c].proto \in {"Http1", "Http2", "Tls"}
  \/ conn[c].proto = "Detect" /\ conn[c].version \in Variants

\* C17: whenever the switch dispatches a Sidecar to the HTTP sub-stack
\* (Protocol Http1 or Http2, or Detect and an HTTP classification) or to the
\* TLS sub-stack (Protocol Tls), the construction of the HttpSidecar or
\* TlsSidecar that follows succeeds, also when the policy watch is updated
\* between the read of Protocol and the construction's read.
C17_DispatchedConstructionSucceeds ==
  \A c \in Conns :
    Dispatched(c) /\ conn[c].built # None => conn[c].built.ok

\* ------------------------------------------------------------- C18
\* The watch an HttpSidecar chose as its routing provider.
Selected(k) ==
  IF k.provider = "ServiceProfile" THEN profileW[k.orig_dst] ELSE policyW[k.orig_dst]

\* C18: the routes an HttpSidecar publishes depend on the watch chosen as
\* its provider only: under ServiceProfile they are the projection of a
\* profile snapshot and change only when the spawner reads a new profile
\* version, whatever the policy does; under ClientPolicy they are the
\* projection of a policy snapshot and change only when the spawner reads a
\* new policy version, whatever the profile does, also when it gains or
\* loses the routes that would override the policy.
C18_OtherWatchIgnored ==
  /\ [](\A k \in httpCache :
          LET wr == watches[k.routes]
          IN /\ wr # None
             /\ wr.value.shape = IF k.provider = "ServiceProfile" THEN "Profile" ELSE "Policy"
             /\ wr.up.version = Selected(k).version
                  => IF k.provider = "ServiceProfile"
                     THEN wr.value = HttpMkProfileRoutes(wr.value.addr, Selected(k).value)
                     ELSE LET r == HttpMkPolicyRoutes(k.orig_dst, k.version, Selected(k).value)
                          IN r.tag = "Some" => wr.value = r.val)
  /\ [][\A k \in httpCache :
          /\ watches[k.routes] # None
          /\ watches'[k.routes] # None
          /\ watches'[k.routes].value # watches[k.routes].value
          => /\ Selected(k).version # watches[k.routes].up.version
             /\ UNCHANGED <<policyW, profileW>>]_watches

\* A profile-driven sub-stack whose policy was updated to another arm after
\* it was built: it still publishes the routes of its profile.
C18_Witness ==
  \E k \in httpCache :
    /\ k.provider = "ServiceProfile"
    /\ conn[k.routes].built # None
    /\ policyW[k.orig_dst].version >= 1
    /\ policyW[k.orig_dst].value.protocol.tag # conn[k.routes].built.tag
    /\ watches[k.routes].up.version = profileW[k.orig_dst].version
    /\ watches[k.routes].value =
         HttpMkProfileRoutes(watches[k.routes].mk.addr, profileW[k.orig_dst].value)

====
